---- MODULE Spec2Model ----
(***************************************************************************)
(* Binary-tree membership and placement engine of the client-management    *)
(* server: MemStorage (server/storage.ts) and the three client-creation    *)
(* routes (server/routes.ts).                                              *)
(*                                                                         *)
(* users is the Map<string, User> of MemStorage, kept as the sequence of   *)
(* its values in insertion order (the order Array.from(users.values())     *)
(* yields).  A node's id is its index in that sequence: randomUUID() gives *)
(* a value no earlier node and no request can hold.                        *)
(*                                                                         *)
(* Every handler is an async function, and each action below is the code   *)
(* between two awaits.  An async storage method that is awaited reads the  *)
(* map when it is called (its body up to its own first await runs          *)
(* synchronously), so the read belongs to the step that makes the call and *)
(* its result is used by the next step.  A storage method returns or       *)
(* throws in one step, and the code that awaits it (the route, which then  *)
(* answers) resumes in a later one.                                        *)
(*                                                                         *)
(* Of the awaits of a request only await bcrypt.hash (the native bcrypt,   *)
(* storage.ts line 3) waits for a promise that is still pending: the hash  *)
(* is computed on a worker thread and its promise is settled by a callback *)
(* of the event loop.  The other awaits are on promises of the in-memory   *)
(* storage reads, settled when they are made, and the handler goes on in   *)
(* the same run of the microtask queue.  So a request arrives and runs up  *)
(* to its await bcrypt.hash, and once its hash is there it runs to its     *)
(* response; other requests and initializeAdminUser run while it waits for *)
(* its hash, and at no other time (Running, Turn).  The reads of SpecReads *)
(* are left free of this: a node may be stored between any two steps of a  *)
(* read.                                                                   *)
(*                                                                         *)
(* The constructor of MemStorage leaves the map empty: initializeAdminUser *)
(* stores the administrator once its bcrypt.hash has settled, which is a   *)
(* step of its own.                                                        *)
(***************************************************************************)
EXTENDS Naturals, Sequences, FiniteSets

VARIABLES users, loc, last, admin

vars == <<users, loc, last, admin>>

(* ------------------------------ bounds --------------------------------- *)

\* requests that may be in flight at the same time
NProcs == 2
\* nodes in the map (administrator included) under Spec
MaxUsers == 3
\* nodes in the map (administrator included) under SpecSeq
MaxSeqUsers == 5
\* nodes in the map (administrator included) under SpecAdmin and SpecAdminSeq
MaxAdminUsers == 8
\* nodes in the map (administrator included) under SpecStorage
MaxStorageUsers == 4
\* nodes in the map (administrator included) under SpecPay
MaxPayUsers == 8
\* nodes in the map (administrator included) under SpecReads
MaxReadUsers == 3
\* nodes in the map (administrator included) under SpecDownline
MaxDownUsers == 5
\* nodes in the map (administrator included) under SpecAnchor
MaxAnchorUsers == 4

Procs == 1 .. NProcs

(* ------------------------------ values --------------------------------- *)

\* parentId: null
NoId == 0
\* position: null
None == "null"
\* a parentId string that is the key of no node
Unknown == MaxUsers + MaxSeqUsers + MaxAdminUsers + MaxStorageUsers + MaxPayUsers + MaxReadUsers + MaxDownUsers + MaxAnchorUsers
\* username: "admin"
AdminName == 1
\* admin.id of initializeAdminUser: the id of the administrator it has
\* stored, null while its bcrypt.hash is pending
AdminId == admin

\* mutant of allPositions: right before left
allPositionsRightFirst == <<"right", "left">>

\* const allPositions = ["left", "right"]
allPositions == <<"left", "right">>

Range(s) == {s[k] : k \in 1 .. Len(s)}

Ids(us) == 1 .. Len(us)

(* --------------------------- MemStorage reads -------------------------- *)

\* users.get(id) || null, as the existence test the routes make of it
getUserById(us, id) == id \in Ids(us)

\* Array.from(users.values()).find(user => user.username === username), as
\* the existence test the routes make of it
getUserByUsername(us, username) == \E k \in Ids(us) : us[k].username = username

IsClient(u) == u.role = "client"

Reverse(s) == [k \in 1 .. Len(s) |-> s[Len(s) + 1 - k]]

\* mutant of getAllClients: the clients in the reverse of creation order
getAllClientsReversed(us) == Reverse(SelectSeq(us, IsClient))

\* Array.from(users.values()).filter(user => user.role === "client")
getAllClients(us) == SelectSeq(us, IsClient)

\* mutant of getClientsByParent: the filter compares user.id
getClientsById(us, parentId) ==
  LET IsSelf(u) == u.id = parentId IN SelectSeq(us, IsSelf)

\* mutant of getClientsByParent: the child stored last comes first
getClientsByParentNewestFirst(us, parentId) ==
  LET IsChild(u) == u.parentId = parentId IN Reverse(SelectSeq(us, IsChild))

\* Array.from(users.values()).filter(user => user.parentId === parentId)
getClientsByParent(us, parentId) ==
  LET IsChild(u) == u.parentId = parentId IN SelectSeq(us, IsChild)

\* mutant of getClientDownline: the direct children only
getClientDownlineDirect(us, clientId) == getClientsByParent(us, clientId)

\* getClientDownline(clientId): for (const child of directChildren) {
\*   downline.push(child);
\*   downline.push(...await this.getClientDownline(child.id)) }
\* DownlineFrom is the part of the loop from the k-th child on
RECURSIVE getClientDownline(_, _)
RECURSIVE DownlineFrom(_, _, _)
RECURSIVE DownlineFromSiblingsFirst(_, _, _)
getClientDownline(us, clientId) ==
  DownlineFrom(us, getClientsByParent(us, clientId), 1)

\* mutant of DownlineFrom: the downline of a child is pushed after its
\* later siblings
DownlineFromSiblingsFirst(us, directChildren, k) ==
  IF k > Len(directChildren)
  THEN <<>>
  ELSE <<directChildren[k]>> \o DownlineFromSiblingsFirst(us, directChildren, k + 1)
         \o getClientDownline(us, directChildren[k].id)

DownlineFrom(us, directChildren, k) ==
  IF k > Len(directChildren)
  THEN <<>>
  ELSE <<directChildren[k]>> \o getClientDownline(us, directChildren[k].id)
         \o DownlineFrom(us, directChildren, k + 1)

\* the deepest nesting of getClientDownline calls that the call for clientId,
\* itself at nesting depth, gives rise to; nestings beyond Len(us) + 1 are
\* not followed
RECURSIVE CallDepth(_, _, _)
CallDepth(us, clientId, depth) ==
  LET directChildren == getClientsByParent(us, clientId)
      below == {CallDepth(us, directChildren[k].id, depth + 1) :
                  k \in 1 .. Len(directChildren)}
  IN  IF depth > Len(us) \/ below = {}
      THEN depth
      ELSE CHOOSE d \in below : \A e \in below : e <= d

\* mutant of occupiedPositions: the position of the first child only
occupiedPositionsOfFirst(us, parentId) ==
  LET children == getClientsByParent(us, parentId)
  IN  {children[k].position : k \in 1 .. Len(children) \cap {1}} \ {None}

\* children.map(child => child.position).filter(Boolean)
occupiedPositions(us, parentId) ==
  LET children == getClientsByParent(us, parentId)
  IN  {children[k].position : k \in 1 .. Len(children)} \ {None}

\* mutant of getAvailablePositions: the filter keeps the occupied positions
getAvailablePositionsTaken(us, parentId) ==
  LET IsTaken(pos) == pos \in occupiedPositions(us, parentId)
  IN  SelectSeq(allPositions, IsTaken)

\* allPositions.filter(pos => !occupiedPositions.includes(pos))
getAvailablePositions(us, parentId) ==
  LET IsFree(pos) == pos \notin occupiedPositions(us, parentId)
  IN  SelectSeq(allPositions, IsFree)

\* mutant of OrId: the right operand is never used
OrIdLeft(a, b) == a

\* a || b on ids: the left operand unless it is null
OrId(a, b) == IF a # NoId THEN a ELSE b

\* a || b on positions: the left operand unless it is null
OrPos(a, b) == IF a # None THEN a ELSE b

\* a || b on roles: the left operand unless it is absent
OrRole(a, b) == IF a # None THEN a ELSE b

\* availablePositions[0]
First(avail) == IF Len(avail) > 0 THEN avail[1] ELSE None

\* the User object both createClient and createClientWithPayment build
NewUser(us, username, parentId, position) ==
  [id |-> Len(us) + 1, role |-> "client", username |-> username,
   parentId |-> parentId, position |-> position]

(* ------------------------------- state --------------------------------- *)

\* no response yet.  since is the size of the map when the call was made,
\* len its size when the call returned or threw (for a read: when it was
\* made, and until its size when the read returned), n the key of the node
\* it stored
NoLast ==
  [route |-> "none", status |-> 0, message |-> "", parentId |-> NoId,
   reqPos |-> None, mode |-> "none", avail |-> <<>>, allClients |-> <<>>,
   since |-> 0, len |-> 0, until |-> 0, n |-> 0, clientParent |-> NoId,
   by |-> NoId, arg |-> NoId, result |-> <<>>]

\* a request slot that holds no request
IdleLoc ==
  [pc |-> "idle", route |-> "none", session |-> NoId, username |-> 0,
   reqParent |-> NoId, reqPos |-> None, reqRole |-> None, found |-> FALSE,
   clientParent |-> NoId, by |-> NoId, parentId |-> NoId,
   avail |-> <<>>, allClients |-> <<>>, i |-> 0, arg |-> NoId,
   result |-> <<>>, stack |-> <<>>, len |-> 0, response |-> NoLast]

\* new MemStorage(): this.users = new Map(); initializeAdminUser() has found
\* no administrator and awaits bcrypt.hash
Init ==
  /\ users = <<>>
  /\ loc = [p \in Procs |-> IdleLoc]
  /\ last = NoLast
  /\ admin = NoId

\* the client-creation calls that run: past an await on a settled promise,
\* not waiting for their bcrypt.hash
Running ==
  {q \in Procs : loc[q].pc \in {"user", "parent", "cc_avail", "cwp_avail",
                                "cwp_clients", "cwp_loop", "cwp_admin", "respond"}}

\* request slot p may take a step: no other request runs.  A request that
\* runs goes on to its next await bcrypt.hash or to its response before the
\* event loop starts or resumes another one
Turn(p) == Running \subseteq {p}

\* initializeAdminUser, after await bcrypt.hash: this.users.set(admin.id, admin)
initializeAdminUser ==
  /\ admin = NoId
  /\ Running = {}
  /\ users' = Append(users, [id |-> Len(users) + 1, role |-> "admin",
                             username |-> AdminName, parentId |-> NoId,
                             position |-> None])
  /\ admin' = Len(users) + 1
  /\ UNCHANGED <<loc, last>>

InFlight == {q \in Procs : loc[q].pc # "idle"}

\* the calls in flight that may still store a node
Creating == {q \in Procs : loc[q].pc \notin {"idle", "respond", "read", "downline"}}

\* req.session.role, set at login from the user's role
SessionRole(session) == IF session \in Ids(users) THEN users[session].role ELSE "none"

UsedNames ==
  {AdminName} \cup {users[k].username : k \in Ids(users)}
              \cup {loc[q].username : q \in Creating}

\* a username nobody uses: the least one
FreshName ==
  CHOOSE n \in 1 .. Cardinality(UsedNames) + 1 :
    n \notin UsedNames /\ \A m \in 1 .. n - 1 : m \in UsedNames

\* usernames a request may carry: that of a stored user (the administrator's
\* stands for all of them: getUserByUsername only tells whether one matches),
\* that of a request in flight, or one nobody uses
Names ==
  {AdminName} \cup {loc[q].username : q \in Creating} \cup {FreshName}

\* request bodies that pass createClientSchema.parse
Bodies ==
  [username : Names, parentId : {NoId, Unknown} \cup Ids(users),
   position : {None, "left", "right"}]

\* the bodies the administrator's add-client form sends: a new username,
\* parentId = currentUser.id and position = null
AdminBodies ==
  [username : {FreshName}, parentId : {AdminId}, position : {None}]

\* the bodies POST /api/clients/create-with-payment reads: a username, any
\* parentId or none; createClientWithPayment never reads the position
PayBodies ==
  [username : Names, parentId : {NoId, Unknown} \cup Ids(users), position : {None}]

\* who the session cookie of a request may belong to
Sessions == {NoId} \cup Ids(users)

(* ----------------------------- responses ------------------------------- *)

\* the handler of p returns
Return(p, response) ==
  /\ loc' = [loc EXCEPT ![p] = IdleLoc]
  /\ last' = response

\* res.status(400).json({ message }) before the storage call; parentId is
\* the id the route looked up, if it looked one up
Reject(p, message, parentId) ==
  /\ Return(p, [NoLast EXCEPT !.route = loc[p].route, !.status = 400,
                              !.message = message, !.parentId = parentId,
                              !.len = Len(users)])
  /\ UNCHANGED <<users, admin>>

\* the storage call of p has returned or thrown: the promise the caller
\* awaits is settled, and the caller resumes in a later step
Settle(p, response) ==
  /\ loc' = [loc EXCEPT ![p] =
               [IdleLoc EXCEPT !.pc = "respond", !.route = loc[p].route,
                               !.response = response]]
  /\ UNCHANGED <<last, admin>>

\* the caller resumes after await storage.create...(...): the route answers
\* res.status(201).json(client), or its catch answers
\* res.status(400).json({ message: error.message })
Respond(p) ==
  /\ loc[p].pc = "respond"
  /\ Turn(p)
  /\ Return(p, loc[p].response)
  /\ UNCHANGED <<users, admin>>

\* throw new Error(message) in the storage call: the route will answer 400
Throw(p, message) ==
  /\ Settle(p, [NoLast EXCEPT !.route = loc[p].route, !.status = 400,
                              !.message = message,
                              !.parentId = OrId(loc[p].clientParent, loc[p].by),
                              !.mode = "direct", !.since = loc[p].len,
                              !.len = Len(users),
                              !.clientParent = loc[p].clientParent,
                              !.by = loc[p].by])
  /\ UNCHANGED users

\* what the caller of a storage call that stores users[Len(users) + 1] gets
Created(p, mode) ==
  [NoLast EXCEPT !.route = loc[p].route, !.status = 201,
                 !.parentId = OrId(loc[p].clientParent, loc[p].by),
                 !.reqPos = loc[p].reqPos, !.mode = mode,
                 !.avail = loc[p].avail, !.allClients = loc[p].allClients,
                 !.since = loc[p].len, !.len = Len(users), !.until = Len(users),
                 !.n = Len(users) + 1,
                 !.clientParent = loc[p].clientParent, !.by = loc[p].by]

\* mutant of Store: the key is that of the entry stored last, which the new
\* user replaces
StoreOverLast(p, parentId, position, mode) ==
  /\ users' = Append(SubSeq(users, 1, Len(users) - 1),
                   NewUser(SubSeq(users, 1, Len(users) - 1), loc[p].username, parentId, position))
  /\ Settle(p, Created(p, mode))

\* this.users.set(id, user); return user
Store(p, parentId, position, mode) ==
  /\ users' = Append(users, NewUser(users, loc[p].username, parentId, position))
  /\ Settle(p, Created(p, mode))

\* the nodes the calls under way will have stored when they are over
Coming == Cardinality(Creating) + (IF admin = NoId THEN 1 ELSE 0)

\* a request is accepted: no request runs, there is room for its node
\* within max nodes, and in the one-at-a-time specifications no other
\* request is in flight
Accept(p, max, seq) ==
  /\ loc[p].pc = "idle"
  /\ Running = {}
  /\ Len(users) + Coming < max
  /\ seq => InFlight = {}

(* ----------------------- MemStorage.createUser ------------------------- *)

\* createUser(insertUser), after await bcrypt.hash:
\*   role: insertUser.role || "client", parentId: insertUser.parentId || null,
\*   position: insertUser.position || null;  this.users.set(id, user)
createUser(p) ==
  /\ loc[p].pc = "cu_hash"
  /\ Turn(p)
  /\ users' = Append(users,
                [id |-> Len(users) + 1, role |-> OrRole(loc[p].reqRole, "client"),
                 username |-> loc[p].username,
                 parentId |-> OrId(loc[p].clientParent, NoId),
                 position |-> OrPos(loc[p].reqPos, None)])
  /\ Settle(p, [Created(p, "user") EXCEPT !.parentId = loc[p].clientParent])

(* --------------------- MemStorage.createClient ------------------------- *)

\* createClient(client, createdById), after await bcrypt.hash:
\*   const parentId = client.parentId || createdById;
\*   if (parentId) { availablePositions = await getAvailablePositions(parentId)
CcAfterHash(p) ==
  LET parentId == OrId(loc[p].clientParent, loc[p].by)
  IN  IF parentId # NoId
      THEN /\ loc' = [loc EXCEPT ![p].pc = "cc_avail",
                                 ![p].parentId = parentId,
                                 ![p].avail = getAvailablePositions(users, parentId)]
           /\ UNCHANGED <<users, last, admin>>
      ELSE Store(p, NoId, None, "root")

\* mutant of CcAfterAvail: no throw on an empty availablePositions
CcAfterAvailNoThrow(p) ==
  Store(p, loc[p].parentId, OrPos(loc[p].reqPos, First(loc[p].avail)), "direct")

\*   if (availablePositions.length === 0) throw ...
\*   position = client.position || availablePositions[0];  this.users.set(id, user)
CcAfterAvail(p) ==
  IF Len(loc[p].avail) = 0
  THEN Throw(p, "Parent already has 2 children")
  ELSE Store(p, loc[p].parentId, OrPos(loc[p].reqPos, First(loc[p].avail)), "direct")

createClient(p) ==
  /\ loc[p].pc \in {"cc_hash", "cc_avail"}
  /\ Turn(p)
  /\ IF loc[p].pc = "cc_hash" THEN CcAfterHash(p) ELSE CcAfterAvail(p)

(* ---------------- MemStorage.createClientWithPayment ------------------- *)

\* createClientWithPayment(client, adminId), after await bcrypt.hash:
\*   let parentId = client.parentId || adminId;
\*   if (parentId) { availablePositions = await getAvailablePositions(parentId)
CwpAfterHash(p) ==
  LET parentId == OrId(loc[p].clientParent, loc[p].by)
  IN  IF parentId # NoId
      THEN /\ loc' = [loc EXCEPT ![p].pc = "cwp_avail",
                                 ![p].parentId = parentId,
                                 ![p].avail = getAvailablePositions(users, parentId)]
           /\ UNCHANGED <<users, last, admin>>
      ELSE Store(p, NoId, None, "root")

\* the ids of the snapshot getAllClients() returns
ClientIds(us) ==
  LET clients == getAllClients(us) IN [k \in 1 .. Len(clients) |-> clients[k].id]

\* mutant of CwpAfterAvail: position = "left" whatever is available
CwpAfterAvailAlwaysLeft(p) ==
  IF Len(loc[p].avail) = 0
  THEN /\ loc' = [loc EXCEPT ![p].pc = "cwp_clients",
                             ![p].allClients = ClientIds(users)]
       /\ UNCHANGED <<users, last, admin>>
  ELSE Store(p, loc[p].parentId, "left", "direct")

\*   if (availablePositions.length === 0) { allClients = await getAllClients()
\*   } else { position = availablePositions[0] }  this.users.set(id, user)
CwpAfterAvail(p) ==
  IF Len(loc[p].avail) = 0
  THEN /\ loc' = [loc EXCEPT ![p].pc = "cwp_clients",
                             ![p].allClients = ClientIds(users)]
       /\ UNCHANGED <<users, last, admin>>
  ELSE Store(p, loc[p].parentId, First(loc[p].avail), "direct")

\* the loop is over with position still null:
\*   if (!position && adminId) { parentId = adminId;
\*     adminPositions = await getAvailablePositions(adminId)
\* and without an adminId the node is stored as it stands
CwpAfterLoop(p) ==
  IF loc[p].by # NoId
  THEN /\ loc' = [loc EXCEPT ![p].pc = "cwp_admin",
                             ![p].parentId = loc[p].by,
                             ![p].avail = getAvailablePositions(users, loc[p].by)]
       /\ UNCHANGED <<users, last, admin>>
  ELSE Store(p, loc[p].parentId, None, "anchor")

\* mutant of CwpLoopRead: the positions read are those of the requested parent
CwpLoopReadOfParent(p, i) ==
  /\ loc' = [loc EXCEPT ![p].pc = "cwp_loop", ![p].i = i,
                        ![p].avail = getAvailablePositions(users, loc[p].parentId)]
  /\ UNCHANGED <<users, last, admin>>

\* for (const potentialParent of allClients) {
\*   availablePos = await getAvailablePositions(potentialParent.id)
CwpLoopRead(p, i) ==
  /\ loc' = [loc EXCEPT ![p].pc = "cwp_loop", ![p].i = i,
                        ![p].avail = getAvailablePositions(users, loc[p].allClients[i])]
  /\ UNCHANGED <<users, last, admin>>

\* mutant of CwpAfterClients: the scan starts at the last client
CwpAfterClientsFromLast(p) ==
  IF Len(loc[p].allClients) > 0
  THEN CwpLoopRead(p, Len(loc[p].allClients))
  ELSE CwpAfterLoop(p)

\* the first iteration, or none when allClients is empty
CwpAfterClients(p) ==
  IF Len(loc[p].allClients) > 0 THEN CwpLoopRead(p, 1) ELSE CwpAfterLoop(p)

\* mutant of CwpAfterLoopRead: a full candidate is examined again
CwpAfterLoopReadAgain(p) ==
  IF Len(loc[p].avail) > 0
  THEN Store(p, loc[p].allClients[loc[p].i], First(loc[p].avail), "scan")
  ELSE CwpLoopRead(p, loc[p].i)

\*   if (availablePos.length > 0) { parentId = potentialParent.id;
\*     position = availablePos[0]; break; }   and then this.users.set(id, user)
\* or the next iteration, or the end of the loop
CwpAfterLoopRead(p) ==
  IF Len(loc[p].avail) > 0
  THEN Store(p, loc[p].allClients[loc[p].i], First(loc[p].avail), "scan")
  ELSE IF loc[p].i < Len(loc[p].allClients)
       THEN CwpLoopRead(p, loc[p].i + 1)
       ELSE CwpAfterLoop(p)

\*   position = adminPositions.length > 0 ? adminPositions[0] : null;
\*   this.users.set(id, user)
CwpAfterAdmin(p) == Store(p, loc[p].parentId, First(loc[p].avail), "anchor")

createClientWithPayment(p) ==
  /\ loc[p].pc \in {"cwp_hash", "cwp_avail", "cwp_clients", "cwp_loop", "cwp_admin"}
  /\ Turn(p)
  /\ CASE loc[p].pc = "cwp_hash" -> CwpAfterHash(p)
       [] loc[p].pc = "cwp_avail" -> CwpAfterAvail(p)
       [] loc[p].pc = "cwp_clients" -> CwpAfterClients(p)
       [] loc[p].pc = "cwp_loop" -> CwpAfterLoopRead(p)
       [] loc[p].pc = "cwp_admin" -> CwpAfterAdmin(p)

(* ------------------------------ routes --------------------------------- *)

\* the request enters a handler: the body is parsed and
\* storage.getUserByUsername(clientData.username) is awaited
Enter(p, route, session, body, parentId) ==
  /\ loc' = [loc EXCEPT ![p] =
               [IdleLoc EXCEPT !.pc = "user", !.route = route, !.session = session,
                               !.username = body.username, !.reqParent = parentId,
                               !.reqPos = body.position, !.len = Len(users),
                               !.found = getUserByUsername(users, body.username)]]
  /\ last' = NoLast
  /\ UNCHANGED <<users, admin>>

\* POST /api/clients/create-with-payment, requireAdmin, paymentConfirmed
PostCreateWithPayment(p, session, body, paymentConfirmed) ==
  /\ session # NoId /\ SessionRole(session) = "admin"
  /\ paymentConfirmed
  /\ Enter(p, "payment", session, body, body.parentId)

\* POST /api/clients, requireAdmin
PostClients(p, session, body) ==
  /\ session # NoId /\ SessionRole(session) = "admin"
  /\ Enter(p, "clients", session, body, body.parentId)

\* res.status(403).json({ message }) of POST /api/clients/downline, before
\* any await; by is req.session.userId
Forbidden(session) ==
  /\ last' = [NoLast EXCEPT !.route = "downline", !.status = 403,
                            !.message = "Only clients can add downline members",
                            !.len = Len(users), !.by = session]
  /\ UNCHANGED <<users, loc, admin>>

\* mutant of PostDownline: the parentId of the body is kept when it is set
PostDownlineBodyParent(p, session, body) ==
  /\ session # NoId
  /\ IF SessionRole(session) # "client"
     THEN Forbidden(session)
     ELSE Enter(p, "downline", session, body, OrId(body.parentId, session))

\* POST /api/clients/downline, requireAuth:
\*   if (req.session.role !== "client") return 403
\*   clientData.parentId = req.session.userId
PostDownline(p, session, body) ==
  /\ session # NoId
  /\ IF SessionRole(session) # "client"
     THEN Forbidden(session)
     ELSE Enter(p, "downline", session, body, session)

\* the storage call of the route: finalClientData.parentId is
\* clientData.parentId || req.session.userId, the second argument
\* req.session.userId; the call runs up to its await bcrypt.hash
CallStorage(p) ==
  /\ loc' = [loc EXCEPT ![p].pc = IF loc[p].route = "payment" THEN "cwp_hash" ELSE "cc_hash",
                        ![p].clientParent = OrId(loc[p].reqParent, loc[p].session),
                        ![p].by = loc[p].session]
  /\ UNCHANGED <<users, last, admin>>

\* if (existingUser) return 400; then, on the payment route,
\* parentUser = await storage.getUserById(clientData.parentId || userId)
AfterUsername(p) ==
  /\ loc[p].pc = "user"
  /\ Turn(p)
  /\ IF loc[p].found
     THEN Reject(p, "Username already exists", NoId)
     ELSE IF loc[p].route = "payment"
          THEN /\ loc' = [loc EXCEPT ![p].pc = "parent",
                            ![p].found = getUserById(users, OrId(loc[p].reqParent, loc[p].session))]
               /\ UNCHANGED <<users, last, admin>>
          ELSE CallStorage(p)

\* if (!parentUser) return 400 "Parent user not found"
AfterParent(p) ==
  /\ loc[p].pc = "parent"
  /\ Turn(p)
  /\ IF loc[p].found
     THEN CallStorage(p)
     ELSE Reject(p, "Parent user not found", OrId(loc[p].reqParent, loc[p].session))

(* ----------------------- the storage interface ------------------------- *)

\* the CreateClientRequest objects a caller of the storage methods may pass;
\* neither method reads client.username before it builds the user
StorageClients ==
  [username : {FreshName}, parentId : {NoId, Unknown} \cup Ids(users),
   position : {None, "left", "right"}]

\* the optional second argument, createdById or adminId: left out, or an id
Creators == {NoId} \cup Ids(users)

\* storage.createClient(client, createdById) or
\* storage.createClientWithPayment(client, adminId), called as IStorage
\* declares them; the call runs up to its await bcrypt.hash
StorageCall(p, method, client, createdById) ==
  /\ loc' = [loc EXCEPT ![p] =
               [IdleLoc EXCEPT !.pc = IF method = "createClientWithPayment"
                                      THEN "cwp_hash" ELSE "cc_hash",
                               !.route = method, !.username = client.username,
                               !.reqPos = client.position,
                               !.clientParent = client.parentId,
                               !.by = createdById, !.len = Len(users)]]
  /\ last' = NoLast
  /\ UNCHANGED <<users, admin>>

\* the InsertUser objects a caller of createUser may pass; a role "client"
\* is stored as an absent role is
InsertUsers ==
  [username : {FreshName}, role : {None, "admin"},
   parentId : {NoId, Unknown} \cup Ids(users),
   position : {None, "left", "right"}]

\* storage.createUser(insertUser); the call runs up to its await bcrypt.hash
UserCall(p, insertUser) ==
  /\ loc' = [loc EXCEPT ![p] =
               [IdleLoc EXCEPT !.pc = "cu_hash", !.route = "createUser",
                               !.username = insertUser.username,
                               !.reqRole = insertUser.role,
                               !.reqPos = insertUser.position,
                               !.clientParent = insertUser.parentId,
                               !.len = Len(users)]]
  /\ last' = NoLast
  /\ UNCHANGED <<users, admin>>

\* the read methods of IStorage that the tree is queried with
ReadMethods ==
  {"getAllClients", "getClientsByParent", "getClientDownline",
   "getAvailablePositions"}

\* the id a read method may be asked about: a node's, or the id of no node
\* (getAllClients takes no argument)
ReadArgs(method) ==
  IF method = "getAllClients" THEN {NoId} ELSE Ids(users) \cup {Unknown}

\* what the read method returns when the map is us for as long as the call
\* lasts
ReadResult(us, method, arg) ==
  CASE method = "getAllClients" -> getAllClients(us)
    [] method = "getClientsByParent" -> getClientsByParent(us, arg)
    [] method = "getClientDownline" -> getClientDownline(us, arg)
    [] method = "getAvailablePositions" -> getAvailablePositions(us, arg)

\* what the method reads before its first await: getClientDownline its
\* directChildren, the other methods all they return
ReadAtCall(us, method, arg) ==
  CASE method = "getAllClients" -> getAllClients(us)
    [] method = "getClientsByParent" -> getClientsByParent(us, arg)
    [] method = "getClientDownline" -> getClientsByParent(us, arg)
    [] method = "getAvailablePositions" -> getAvailablePositions(us, arg)

\* await storage.<method>(arg): the method reads the map when it is called.
\* A call of getClientDownline is a stack of loops, one for each nested
\* call, each the directChildren it has yet to visit
ReadCall(p, method, arg) ==
  /\ loc[p].pc = "idle"
  /\ loc' = [loc EXCEPT ![p] =
               IF method = "getClientDownline"
               THEN [IdleLoc EXCEPT !.pc = "downline", !.route = method,
                                    !.arg = arg, !.len = Len(users),
                                    !.stack = <<ReadAtCall(users, method, arg)>>]
               ELSE [IdleLoc EXCEPT !.pc = "read", !.route = method,
                                    !.arg = arg, !.len = Len(users),
                                    !.result = ReadAtCall(users, method, arg)]]
  /\ last' = NoLast
  /\ UNCHANGED <<users, admin>>

\* mutant of DownlineResume: the nested call finds no directChildren
DownlineResumeNoRead(p) ==
  /\ loc[p].pc = "downline"
  /\ loc[p].stack # <<>>
  /\ LET stack == loc[p].stack
         top == stack[Len(stack)]
     IN  IF top = <<>>
         THEN loc' = [loc EXCEPT ![p].stack = SubSeq(stack, 1, Len(stack) - 1)]
         ELSE loc' = [loc EXCEPT
                        ![p].result = Append(loc[p].result, Head(top)),
                        ![p].stack = Append([stack EXCEPT ![Len(stack)] = Tail(top)],
                                            <<>>)]
  /\ UNCHANGED <<users, last, admin>>

\* the innermost call of getClientDownline resumes after an await:
\*   for (const child of directChildren) { downline.push(child);
\*     childDownline = await this.getClientDownline(child.id)
\* where the nested call reads the directChildren of child before it awaits;
\* or the loop is over and the call returns its downline to the call around it
DownlineResume(p) ==
  /\ loc[p].pc = "downline"
  /\ loc[p].stack # <<>>
  /\ LET stack == loc[p].stack
         top == stack[Len(stack)]
     IN  IF top = <<>>
         THEN loc' = [loc EXCEPT ![p].stack = SubSeq(stack, 1, Len(stack) - 1)]
         ELSE loc' = [loc EXCEPT
                        ![p].result = Append(loc[p].result, Head(top)),
                        ![p].stack = Append([stack EXCEPT ![Len(stack)] = Tail(top)],
                                            getClientsByParent(users, Head(top).id))]
  /\ UNCHANGED <<users, last, admin>>

\* the read of p has its result, which the caller has yet to receive
ReadDone(p) ==
  \/ loc[p].pc = "read"
  \/ loc[p].pc = "downline" /\ loc[p].stack = <<>>

\* the caller resumes after await storage.<method>(arg) with the result
ReadReturn(p) ==
  /\ ReadDone(p)
  /\ Return(p, [NoLast EXCEPT !.route = loc[p].route, !.status = 200,
                              !.arg = loc[p].arg, !.result = loc[p].result,
                              !.len = loc[p].len, !.until = Len(users)])
  /\ UNCHANGED <<users, admin>>

(* --------------------------- specifications ---------------------------- *)

Request(p, max, seq) ==
  /\ Accept(p, max, seq)
  /\ \E session \in Sessions, body \in Bodies :
        \/ PostCreateWithPayment(p, session, body, TRUE)
        \/ PostClients(p, session, body)
        \/ PostDownline(p, session, body)

AdminRequest(p, max, seq) ==
  /\ Accept(p, max, seq)
  /\ \E body \in AdminBodies : PostCreateWithPayment(p, AdminId, body, TRUE)

Step(p) ==
  \/ AfterUsername(p)
  \/ AfterParent(p)
  \/ createClient(p)
  \/ createClientWithPayment(p)
  \/ Respond(p)

AdminStep(p) ==
  \/ AfterUsername(p)
  \/ AfterParent(p)
  \/ createClientWithPayment(p)
  \/ Respond(p)

\* any number of requests up to NProcs in flight, interleaved at their
\* await bcrypt.hash
Next ==
  \/ initializeAdminUser
  \/ \E p \in Procs : Request(p, MaxUsers, FALSE) \/ Step(p)

Spec == Init /\ [][Next]_vars

\* one request at a time, in request slot 1
NextSeq ==
  \/ initializeAdminUser
  \/ Request(1, MaxSeqUsers, TRUE)
  \/ Step(1)

SpecSeq == Init /\ [][NextSeq]_vars

\* the administrator's add-client workflow, requests interleaved at their
\* await bcrypt.hash
NextAdmin ==
  \/ initializeAdminUser
  \/ \E p \in Procs : AdminRequest(p, MaxAdminUsers, FALSE) \/ AdminStep(p)

SpecAdmin == Init /\ [][NextAdmin]_vars

\* the administrator's add-client workflow, one request at a time
NextAdminSeq ==
  \/ initializeAdminUser
  \/ AdminRequest(1, MaxAdminUsers, TRUE)
  \/ AdminStep(1)

SpecAdminSeq == Init /\ [][NextAdminSeq]_vars

StorageRequest(p, max, seq) ==
  /\ Accept(p, max, seq)
  /\ \E method \in {"createClient", "createClientWithPayment"},
        client \in StorageClients, createdById \in Creators :
        StorageCall(p, method, client, createdById)

UserRequest(p, max, seq) ==
  /\ Accept(p, max, seq)
  /\ \E insertUser \in InsertUsers : UserCall(p, insertUser)

\* the two placement methods called directly, one call at a time, from the
\* construction of the storage on
NextStorage ==
  \/ initializeAdminUser
  \/ StorageRequest(1, MaxStorageUsers, TRUE)
  \/ createClient(1)
  \/ createClientWithPayment(1)
  \/ Respond(1)

SpecStorage == Init /\ [][NextStorage]_vars

\* the InsertUser objects that hang a user of any role at a position under
\* a stored user
FillUsers ==
  [username : {FreshName}, role : {None, "admin"}, parentId : Ids(users),
   position : {"left", "right"}]

FillRequest(p, max, seq) ==
  /\ Accept(p, max, seq)
  /\ \E insertUser \in FillUsers : UserCall(p, insertUser)

\* the two placement methods called with a stored user as second argument,
\* as the routes call them with req.session.userId
AnchorRequest(p, max, seq) ==
  /\ Accept(p, max, seq)
  /\ \E method \in {"createClient", "createClientWithPayment"},
        client \in StorageClients, createdById \in Ids(users) :
        StorageCall(p, method, client, createdById)

\* the storage interface on the maps createUser builds: createUser and the
\* two placement methods called directly, one call at a time
NextAnchor ==
  \/ initializeAdminUser
  \/ FillRequest(1, MaxAnchorUsers, TRUE)
  \/ createUser(1)
  \/ AnchorRequest(1, MaxAnchorUsers, TRUE)
  \/ createClient(1)
  \/ createClientWithPayment(1)
  \/ Respond(1)

SpecAnchor == Init /\ [][NextAnchor]_vars

PayRequest(p, max, seq) ==
  /\ Accept(p, max, seq)
  /\ \E session \in Sessions, body \in PayBodies :
        PostCreateWithPayment(p, session, body, TRUE)

\* POST /api/clients/create-with-payment for any parent, one request at a time
NextPay ==
  \/ initializeAdminUser
  \/ PayRequest(1, MaxPayUsers, TRUE)
  \/ AdminStep(1)

\* with the scheduling of the event loop: every awaited promise of a handler
\* settles (bcrypt.hash resolves, the async storage reads return), so a
\* handler that can take its next step takes it
SpecPay == Init /\ [][NextPay]_vars /\ WF_vars(AdminStep(1))

ReadRequest(p) ==
  \E method \in ReadMethods : \E arg \in ReadArgs(method) : ReadCall(p, method, arg)

\* the reads of the storage interface, one at a time in slot 2, and
\* createUser, which stores a user of any role under any parentId at any
\* position, one call at a time in slot 1.  The steps of a read are not tied
\* to the scheduling of the hash: a node may be stored between any two of
\* them, which covers every moment at which a bcrypt.hash may settle
NextReads ==
  \/ initializeAdminUser
  \/ UserRequest(1, MaxReadUsers, FALSE)
  \/ createUser(1)
  \/ Respond(1)
  \/ ReadRequest(2)
  \/ DownlineResume(2)
  \/ ReadReturn(2)

SpecReads == Init /\ [][NextReads]_vars

DownlineRequest(p, max, seq) ==
  /\ Accept(p, max, seq)
  /\ \E session \in Sessions, body \in Bodies :
        \/ PostClients(p, session, body)
        \/ PostDownline(p, session, body)

\* POST /api/clients and POST /api/clients/downline, one request at a time
NextDownline ==
  \/ initializeAdminUser
  \/ DownlineRequest(1, MaxDownUsers, TRUE)
  \/ AfterUsername(1)
  \/ createClient(1)
  \/ Respond(1)

SpecDownline == Init /\ [][NextDownline]_vars

(* ------------------------- tree vocabulary ----------------------------- *)

\* the map as it was when the request that last returned took its last step
Pre == SubSeq(users, 1, last.len)

\* the request that last returned stored a node: users[last.n]
Stored == last.status = 201

\* the nodes whose parentId is P
Children(us, P) == {k \in Ids(us) : us[k].parentId = P}

\* position pos under parent P is held by some node
Occupied(us, P, pos) == \E k \in Children(us, P) : us[k].position = pos

\* node k has a free position
HasFree(us, k) == Len(getAvailablePositions(us, k)) > 0

\* the number of parent steps from node k up to the root
RECURSIVE Depth(_, _)
Depth(us, k) ==
  IF us[k].parentId \in Ids(us) \ {k} THEN 1 + Depth(us, us[k].parentId) ELSE 0

\* us is one tree: every node but the administrator hangs under an earlier node
OneTree(us) == \A k \in Ids(us) \ {AdminId} : us[k].parentId \in 1 .. k - 1

(* ------------------------------ claims --------------------------------- *)

\* C1 (capacity, I1/I2): every node has at most 2 nodes whose parentId is
\* its id, and no two of them have the same position.
Capacity ==
  \A P \in Ids(users) :
    /\ Cardinality(Children(users, P)) <= 2
    /\ \A a, b \in Children(users, P) :
         a # b => users[a].position # users[b].position

\* a call of createClient or createClientWithPayment has returned or thrown
Called == last.mode \notin {"none", "user"}

\* the nodes stored while the call that last returned was in flight: the
\* nodes of the calls that were in flight at the same time and ended first
Meanwhile == (last.since + 1) .. last.len

\* C2 (concurrent placement): of two placement calls in flight at the same
\* time that target the same parent and resolve to the same position, at
\* most one ends with a node stored at that (parent, position): the node a
\* call stores never lands on the parent and position of a node that was
\* stored while the call was in flight.
CheckThenInsertAtomic ==
  (Called /\ Stored /\ users[last.n].parentId # NoId
          /\ users[last.n].position # None)
    => \A k \in Meanwhile :
         ~ /\ users[k].parentId = users[last.n].parentId
           /\ users[k].position = users[last.n].position

\* C3 (explicit position only if free): a placement that names a position
\* which is occupied under the requested parent, while the other position is
\* free, stores the node under that parent at the other position.
ExplicitOccupiedTakesOther ==
  LET avail == getAvailablePositions(Pre, last.parentId)
  IN  (Stored /\ last.reqPos # None /\ Len(avail) = 1 /\ avail[1] # last.reqPos)
        => /\ users[last.n].parentId = last.parentId
           /\ users[last.n].position = avail[1]

\* C4 (explicit position honoured when free): a placement that names a
\* position which is free under the requested parent stores the node at
\* exactly that position.
ExplicitFreeHonoured ==
  (Stored /\ last.reqPos # None
          /\ last.reqPos \in Range(getAvailablePositions(Pre, last.parentId)))
    => users[last.n].position = last.reqPos

\* C5 (I3, no torn node): every stored node has a position if and only if
\* it has a parentId: no placement path stores a node with one of the two.
PositionIffParent ==
  \A k \in Ids(users) : (users[k].position = None) <=> (users[k].parentId = NoId)

\* the call that last returned was a call of createClientWithPayment
ByPayment == last.route \in {"createClientWithPayment", "payment"}

\* C6 (TreeFull): when neither the requested parent, nor any client of the
\* map (the candidates of the fallback search), nor the anchor passed as
\* adminId has a free position, createClientWithPayment fails and stores no
\* node.
TreeFullFails ==
  (/\ Called
   /\ ByPayment
   /\ last.parentId # NoId
   /\ ~HasFree(Pre, last.parentId)
   /\ \A k \in Ids(Pre) : IsClient(Pre[k]) => ~HasFree(Pre, k)
   /\ last.by # NoId
   /\ ~HasFree(Pre, last.by))
    => /\ last.status = 400
       /\ last.n = 0

\* C7 (spillover instead of rejection): a placement whose requested parent
\* has both positions occupied, while some node of the tree has a free
\* position, succeeds and stores the new node in a free position of a node.
SpilloverNotRejected ==
  (/\ last.mode # "none"
   /\ last.parentId \in Ids(Pre)
   /\ ~HasFree(Pre, last.parentId)
   /\ \E k \in Ids(Pre) : HasFree(Pre, k))
    => /\ Stored
       /\ users[last.n].parentId \in Ids(Pre)
       /\ users[last.n].position \in
            Range(getAvailablePositions(Pre, users[last.n].parentId))

\* C8 (ParentNotFound): a placement whose requested parentId is the id of no
\* node fails and stores no node.
ParentNotFoundFails ==
  (last.status # 0 /\ last.parentId # NoId /\ last.parentId \notin Ids(Pre))
    => /\ last.status = 400
       /\ last.n = 0

\* the clients of us, in creation order, that have a free position
FreeClients(us) ==
  LET Free(u) == HasFree(us, u.id) IN SelectSeq(getAllClients(us), Free)

\* C9 (fallback candidate order): when createClientWithPayment finds the
\* requested parent saturated, the new node's parent is the first client in
\* creation order that has a free position, and the new node takes that
\* client's first free position, left before right.
FallbackFirstCandidate ==
  (/\ Stored
   /\ last.route = "payment"
   /\ ~HasFree(Pre, last.parentId)
   /\ Len(FreeClients(Pre)) > 0)
    => /\ users[last.n].parentId = FreeClients(Pre)[1].id
       /\ users[last.n].position =
            getAvailablePositions(Pre, FreeClients(Pre)[1].id)[1]

\* C9 witness: a fallback search that passed over a saturated client and
\* stored the node under a later one.
FallbackSkippedFullClient ==
  /\ Stored
  /\ last.route = "payment"
  /\ last.mode = "scan"
  /\ Len(last.allClients) > 1
  /\ users[last.n].parentId # last.allClients[1]

\* C9, the example of the claim, under SpecAdminSeq: with A {B, C}, B {D, E},
\* C {F, G} created in the order B, C, D, E, F, G, the node placed under A
\* becomes D's left child.
FallbackExample ==
  Len(users) >= 8
    => /\ \A k \in 2 .. 7 :
            /\ users[k].parentId = k \div 2
            /\ users[k].position = allPositions[(k % 2) + 1]
       /\ users[8].parentId = 4
       /\ users[8].position = "left"

\* C10 as stated (shallowest open slot): the parent chosen by the fallback
\* search has minimal depth among all nodes that have a free position.
FallbackShallowest ==
  (Stored /\ last.route = "payment" /\ last.mode = "scan" /\ OneTree(Pre))
    => \A k \in Ids(Pre) :
         HasFree(Pre, k) => Depth(Pre, users[last.n].parentId) <= Depth(Pre, k)

\* C10 as amended (earliest open slot): the parent chosen by the fallback
\* search is a client, and no client created before it has a free position.
FallbackEarliest ==
  (Stored /\ last.route = "payment" /\ last.mode = "scan")
    => /\ users[last.n].parentId \in Ids(Pre)
       /\ IsClient(Pre[users[last.n].parentId])
       /\ \A k \in Ids(Pre) :
            (IsClient(Pre[k]) /\ HasFree(Pre, k)) => users[last.n].parentId <= k

\* C10 witness: the fallback search chose a parent that is deeper than a
\* node with a free position.
FallbackChoseDeeper ==
  /\ Stored
  /\ last.route = "payment"
  /\ last.mode = "scan"
  /\ OneTree(Pre)
  /\ \E k \in Ids(Pre) :
       HasFree(Pre, k) /\ Depth(Pre, k) < Depth(Pre, users[last.n].parentId)

\* C11 (no partial success): every call of createClient or
\* createClientWithPayment either adds exactly one node with both parentId
\* and position recorded, or throws and leaves the users map as it was.
NoPartialSuccess ==
  Called =>
    \/ /\ Stored
       /\ last.n = last.len + 1
       /\ users[last.n].parentId # NoId
       /\ users[last.n].position # None
    \/ /\ last.status = 400
       /\ last.n = 0

\* following parentId from node k for at most fuel steps reaches a node whose
\* parentId is absent; a chain of more than Len(us) steps repeats a node
RECURSIVE EndsAtRoot(_, _, _)
EndsAtRoot(us, k, fuel) ==
  IF us[k].parentId = NoId
  THEN TRUE
  ELSE IF fuel = 0 \/ us[k].parentId \notin Ids(us)
       THEN FALSE
       ELSE EndsAtRoot(us, us[k].parentId, fuel - 1)

\* C12 (I4, acyclicity): in every reachable state the parent relation has no
\* cycles: following parentId from any node reaches, in finitely many steps,
\* a node whose parentId is absent.
AncestorChainsEndAtRoot ==
  \A k \in Ids(users) : EndsAtRoot(users, k, Len(users))

\* the call that last returned stored a node with no parent and no position,
\* and computed no slots on the way
StoredAsRoot ==
  /\ Stored
  /\ users[last.n].parentId = NoId
  /\ users[last.n].position = None
  /\ last.mode = "root"
  /\ last.avail = <<>>
  /\ last.allClients = <<>>

\* C13 as stated (absent parent): when the request carries no parentId, the
\* node is stored with no parent and no position and no slot computation or
\* fallback is performed, also when a creator/admin id is passed as second
\* argument.
AbsentParentStoresRoot ==
  (Called /\ last.clientParent = NoId) => StoredAsRoot

\* C13 as amended: that holds when no creator/admin id is passed; an id that
\* is passed takes the place of the requested parent: the slots are computed
\* on it, and the node goes under it whenever it has a free position.
AbsentParentUsesCreator ==
  (Called /\ last.clientParent = NoId) =>
    IF last.by = NoId
    THEN StoredAsRoot
    ELSE /\ last.mode # "root"
         /\ Stored => users[last.n].parentId # NoId
         /\ HasFree(Pre, last.by) =>
              /\ Stored
              /\ users[last.n].parentId = last.by
              /\ users[last.n].position # None

\* C13 witness: a call without parentId but with a creator id stored its
\* node under the creator.
AbsentParentPlacedUnderCreator ==
  /\ Stored
  /\ last.clientParent = NoId
  /\ last.by # NoId
  /\ users[last.n].parentId = last.by

\* the number of positions of parent P that no node holds
FreeCount(us, P) ==
  Cardinality({pos \in {"left", "right"} : ~Occupied(us, P, pos)})

\* C14 (P3, left precedence): for a requested parent with both positions
\* free and no explicit requested position, createClient and
\* createClientWithPayment store the new node under the requested parent
\* with position left.
LeftPrecedence ==
  (/\ Called
   /\ last.parentId # NoId
   /\ last.reqPos = None
   /\ FreeCount(Pre, last.parentId) = 2)
    => /\ Stored
       /\ users[last.n].parentId = last.parentId
       /\ users[last.n].position = "left"

\* C14 witness: a client with no children was the requested parent of a
\* request without position, and the node became its left child.
LeftChildOfEmptyClient ==
  /\ Stored
  /\ last.reqPos = None
  /\ last.parentId \in Ids(Pre)
  /\ IsClient(Pre[last.parentId])
  /\ FreeCount(Pre, last.parentId) = 2
  /\ users[last.n].parentId = last.parentId
  /\ users[last.n].position = "left"

\* C15 (P2, direct placement): for a requested parent with exactly one free
\* position and no explicit requested position, createClient and
\* createClientWithPayment store the new node under the requested parent at
\* exactly that free position.
OneFreeTaken ==
  (/\ Called
   /\ last.parentId # NoId
   /\ last.reqPos = None
   /\ FreeCount(Pre, last.parentId) = 1)
    => /\ Stored
       /\ users[last.n].parentId = last.parentId
       /\ users[last.n].position \in {"left", "right"}
       /\ ~Occupied(Pre, last.parentId, users[last.n].position)

\* C15 witness: the requested parent had only its left position free (its
\* one child was stored at right), and the node was stored there at left.
OnlyLeftFreeTaken ==
  /\ Stored
  /\ last.route = "payment"
  /\ last.reqPos = None
  /\ FreeCount(Pre, last.parentId) = 1
  /\ Occupied(Pre, last.parentId, "right")
  /\ users[last.n].parentId = last.parentId
  /\ users[last.n].position = "left"

\* the parentId values getAvailablePositions may be asked about: the nodes
\* and an id that is the id of no node
ParentIds == Ids(users) \cup {Unknown}

\* C16 (getAvailablePositions): the result lists, in the order left then
\* right, exactly the positions that are not the position of any node whose
\* parentId is the argument: both when it has no children, none when both
\* are occupied.
AvailableIsFree ==
  \A P \in ParentIds :
    LET avail == getAvailablePositions(users, P)
        free == {pos \in {"left", "right"} :
                   ~ \E k \in Ids(users) :
                        users[k].parentId = P /\ users[k].position = pos}
    IN  /\ Range(avail) = free
        /\ Len(avail) = Cardinality(free)
        /\ Len(avail) = 2 => avail = <<"left", "right">>
        /\ Children(users, P) = {} => avail = <<"left", "right">>
        /\ (Occupied(users, P, "left") /\ Occupied(users, P, "right"))
             => avail = <<>>

\* C16 witness: a call holds the result of getAvailablePositions for a
\* parent with two children at the same position, and it is the other
\* position alone.
AvailableWithTwoLeftChildren ==
  \E p \in Procs :
    /\ loc[p].pc \in {"cc_avail", "cwp_avail"}
    /\ Cardinality(Children(users, loc[p].parentId)) = 2
    /\ loc[p].avail = <<"right">>

\* node X is reached from node k by one or more parentId steps, at most fuel
RECURSIVE HasAncestor(_, _, _, _)
HasAncestor(us, k, X, fuel) ==
  /\ fuel > 0
  /\ us[k].parentId # NoId
  /\ \/ us[k].parentId = X
     \/ /\ us[k].parentId \in Ids(us)
        /\ HasAncestor(us, us[k].parentId, X, fuel - 1)

\* the nodes reachable from X by one or more parent-to-child steps
Descendants(us, X) == {k \in Ids(us) : HasAncestor(us, k, X, Len(us))}

\* C17 (P6, downline completeness): in every reachable state and for every
\* node X, getClientDownline(X) returns exactly the nodes reachable from X by
\* one or more parent-to-child steps, each exactly once, and never X itself
\* or a node that is not a descendant.
DownlineComplete ==
  \A X \in ParentIds :
    LET downline == getClientDownline(users, X)
        ids == {downline[k].id : k \in 1 .. Len(downline)}
    IN  /\ ids = Descendants(users, X)
        /\ Len(downline) = Cardinality(ids)
        /\ X \notin ids
        /\ \A k \in 1 .. Len(downline) : downline[k] = users[downline[k].id]

\* C17 witness: the downline of the administrator holds children,
\* grandchildren and great-grandchildren.
DownlineThreeLevels ==
  LET downline == getClientDownline(users, AdminId)
  IN  \E a, b, c \in 1 .. Len(downline) :
        /\ downline[a].parentId = AdminId
        /\ downline[b].parentId = downline[a].id
        /\ downline[c].parentId = downline[b].id

\* C18 (downline termination): for every node id and every reachable state
\* of the users map, getClientDownline terminates, its recursion depth
\* bounded by the number of nodes.
DownlineTerminates ==
  \A X \in ParentIds : CallDepth(users, X, 0) <= Len(users)

\* C18 witness: the nodes form one chain below the administrator, and the
\* recursion for the administrator goes as deep as the chain is long.
DownlineOfChain ==
  /\ Len(users) >= 4
  /\ CallDepth(users, AdminId, 0) = Len(users) - 1

\* request slot p is inside a call of createClientWithPayment
InPayment(p) ==
  loc[p].pc \in {"cwp_hash", "cwp_avail", "cwp_clients", "cwp_loop", "cwp_admin"}

\* the fallback loop of p is at a candidate of its snapshot, and the snapshot
\* is no longer than the list of existing clients
LoopWithinClients ==
  \A p \in Procs :
    loc[p].pc = "cwp_loop" =>
      /\ loc[p].i \in 1 .. Len(loc[p].allClients)
      /\ Len(loc[p].allClients) <= Len(getAllClients(users))

\* every getAvailablePositions evaluation of the loop is for the candidate
\* after the one evaluated before, the first evaluation for the first
LoopAdvances ==
  \A p \in Procs :
    (loc'[p].pc = "cwp_loop" /\ loc'[p] # loc[p]) =>
      loc'[p].i = IF loc[p].pc = "cwp_loop" THEN loc[p].i + 1 ELSE 1

\* C19 (placement termination): every call of createClientWithPayment
\* terminates, and its fallback loop performs at most one
\* getAvailablePositions evaluation per existing client before it assigns a
\* slot or gives up.
PlacementTerminates ==
  /\ []LoopWithinClients
  /\ [][LoopAdvances]_vars
  /\ \A p \in Procs : InPayment(p) ~> (loc[p].pc = "idle")

\* C19 witness: the fallback loop found its first candidate full and is at
\* its second.
LoopAtSecondCandidate ==
  \E p \in Procs : loc[p].pc = "cwp_loop" /\ loc[p].i = 2

\* C20 (immutability of placement): once a node is stored, its id, parentId
\* and position never change in any later state, and no node is removed:
\* the users map only grows.
PlacementImmutable ==
  [][/\ Len(users') >= Len(users)
     /\ \A k \in Ids(users) :
          /\ users'[k].id = users[k].id
          /\ users'[k].parentId = users[k].parentId
          /\ users'[k].position = users[k].position]_vars

\* C20 witness: a node was stored after two clients, which are still there
\* under their ids.
StoredAfterOthers ==
  /\ Stored
  /\ last.n >= 4
  /\ \A k \in Ids(users) : users[k].id = k
  /\ \E k \in 2 .. last.n - 1 : users[k].parentId # NoId

\* this step is a step of a read: its call, a resumption or its return
ReadStep ==
  \E p \in Procs :
    /\ loc'[p] # loc[p]
    /\ loc[p].pc \in {"read", "downline"} \/ loc'[p].pc \in {"read", "downline"}

\* a read during which the map did not change has the result that is the
\* function ReadResult of the map, the method and the argument
SameReadSameResult ==
  \A p \in Procs :
    (ReadDone(p) /\ loc[p].len = Len(users))
      => loc[p].result = ReadResult(users, loc[p].route, loc[p].arg)

\* C21 (reads are pure): getAvailablePositions, getClientsByParent,
\* getClientDownline and getAllClients leave the users map unchanged, and two
\* evaluations on the same map state return the same result.
ReadsArePure ==
  /\ [][ReadStep => users' = users]_vars
  /\ []SameReadSameResult

\* C21 witness: getClientDownline has gone through a child and a grandchild
\* of its argument, call by call, on a map that did not change meanwhile.
DownlineReadOfGrandchild ==
  \E p \in Procs :
    /\ ReadDone(p)
    /\ loc[p].route = "getClientDownline"
    /\ loc[p].len = Len(users)
    /\ Len(loc[p].result) = 2
    /\ loc[p].result[2].parentId = loc[p].result[1].id

\* C22 (downline pre-order): in the sequence getClientDownline(X) returns,
\* every node comes after its own parent (unless the parent is X) and before
\* all of its own descendants, and the whole subtree of a child is emitted
\* before the next sibling: the descendants of a node follow it directly.
DownlinePreOrder ==
  \A X \in ParentIds :
    LET downline == getClientDownline(users, X)
    IN  \A k \in 1 .. Len(downline) :
          LET below == Descendants(users, downline[k].id)
          IN  /\ \/ downline[k].parentId = X
                 \/ \E j \in 1 .. k - 1 : downline[j].id = downline[k].parentId
              /\ {j \in 1 .. Len(downline) : downline[j].id \in below}
                   = (k + 1) .. (k + Cardinality(below))

\* C22 witness: in the downline of the administrator a grandchild comes
\* before a child that was created before it.
DownlineNotCreationOrder ==
  LET downline == getClientDownline(users, AdminId)
  IN  \E a, b \in 1 .. Len(downline) :
        /\ a < b
        /\ downline[a].id > downline[b].id
        /\ downline[b].parentId = AdminId

\* sequence s is the beginning of sequence t
IsPrefix(s, t) == Len(s) <= Len(t) /\ s = SubSeq(t, 1, Len(s))

\* getClientsByParent returns the stored nodes whose parentId is the
\* argument, each once, the one created earlier first
ChildrenInCreationOrder ==
  \A P \in ParentIds :
    LET children == getClientsByParent(users, P)
    IN  /\ {children[k].id : k \in 1 .. Len(children)} = Children(users, P)
        /\ \A k \in 1 .. Len(children) : children[k] = users[children[k].id]
        /\ \A j, k \in 1 .. Len(children) :
             j < k => children[j].id < children[k].id

\* what getClientsByParent returned before a step is the beginning of what
\* it returns after it
ChildrenKeepOrder ==
  \A P \in ParentIds :
    IsPrefix(getClientsByParent(users, P), getClientsByParent(users', P))

\* C23 (getClientsByParent): the result is exactly the stored nodes whose
\* parentId equals the argument, in creation (map insertion) order, so the
\* relative order of two children never changes as further nodes are added.
ChildrenStable ==
  /\ []ChildrenInCreationOrder
  /\ [][ChildrenKeepOrder]_vars

\* C23 witness: a node has two children, and a node was stored after them
\* that is not its child.
TwoChildrenThenAnother ==
  \E P \in ParentIds :
    /\ Len(getClientsByParent(users, P)) = 2
    /\ Stored
    /\ users[last.n].parentId # P
    /\ last.n > getClientsByParent(users, P)[2].id

\* the call that last returned was a call of createClient
ByCreateClient == last.route \in {"createClient", "clients", "downline"}

\* C24 (createClient on a saturated parent): when the resolved parent
\* (client.parentId or, failing that, createdById) has both positions
\* occupied, createClient throws "Parent already has 2 children", performs
\* no fallback search and leaves the users map unchanged.
SaturatedParentThrows ==
  /\ (/\ Called
      /\ ByCreateClient
      /\ last.parentId # NoId
      /\ ~HasFree(Pre, last.parentId))
       => /\ last.status = 400
          /\ last.message = "Parent already has 2 children"
          /\ last.n = 0
          /\ last.allClients = <<>>
  /\ \A p \in Procs :
       loc[p].route \in {"createClient", "clients", "downline"} => ~InPayment(p)

\* C24 witness: createClient was called without client.parentId, the
\* creator had both positions occupied, and the call threw.
CreatorSaturatedThrew ==
  /\ ByCreateClient
  /\ last.message = "Parent already has 2 children"
  /\ last.clientParent = NoId
  /\ last.by # NoId
  /\ ~HasFree(users, last.by)
  /\ \E k \in Ids(users) : HasFree(users, k)

\* whenever some parent has both positions occupied, a client has a free one
FreeClientExists ==
  (\E P \in ParentIds : ~HasFree(users, P))
    => \E k \in Ids(users) : IsClient(users[k]) /\ HasFree(users, k)

\* C25 (a free client slot always exists): in every state reachable through
\* the client-creation routes in which some parent has both positions
\* occupied, a client has a free position; hence the fallback loop of
\* createClientWithPayment always finds a candidate, its admin-anchor branch
\* is never reached and no node is stored with a parentId but no position.
FreeClientSlotAlways ==
  /\ FreeClientExists
  /\ \A p \in Procs : loc[p].pc # "cwp_admin"
  /\ last.mode # "anchor"
  /\ \A k \in Ids(users) :
       users[k].parentId # NoId => users[k].position # None

\* C25 witness: a request found its parent full and its fallback loop found
\* a candidate, after another request that was in flight with it had stored
\* its node.
FallbackFoundAfterOverlap ==
  /\ Stored
  /\ last.mode = "scan"
  /\ Meanwhile # {}
  /\ users[last.n].position # None

\* C26 (the payment path alone keeps capacity): in a sequential run from the
\* initial state that creates nodes only through createClientWithPayment
\* with an existing parent and the administrator as anchor, every node has
\* at most 2 children, no two children of a node share a position, and
\* every created node has both parentId and position set.
PaymentKeepsCapacity ==
  /\ \A P \in Ids(users) :
       LET children == getClientsByParent(users, P)
       IN  /\ Len(children) <= 2
           /\ Len(children) = 2 => children[1].position # children[2].position
  /\ \A k \in Ids(users) \ {AdminId} :
       /\ users[k].parentId \in Ids(users)
       /\ users[k].position \in {"left", "right"}

\* C26 witness: with seven nodes stored, a request found its parent full and
\* the node went to a candidate of the fallback search.
EighthNodeBySearch ==
  /\ Stored
  /\ last.mode = "scan"
  /\ last.n >= 8
  /\ users[last.n].parentId # last.parentId

\* C27 (referential integrity): in every state reachable through the
\* client-creation routes, every stored node whose parentId is present has
\* a parentId that is the id of a node in the users map.
NoDanglingParent ==
  \A k \in Ids(users) :
    users[k].parentId # NoId => getUserById(users, users[k].parentId)

\* C28 (username uniqueness under interleaving): no two stored users have
\* the same username, and a request whose username is already stored is
\* rejected with "Username already exists" and stores nothing.
UsernamesUnique ==
  /\ \A a, b \in Ids(users) :
       a # b => users[a].username # users[b].username
  /\ Stored => ~getUserByUsername(Pre, users[last.n].username)
  /\ last.message = "Username already exists" =>
       (last.status = 400 /\ last.n = 0)

\* the caller of the downline request that last returned is a client
CallerIsClient == last.by \in Ids(users) /\ IsClient(users[last.by])

\* C29 (downline route confinement): every node created through
\* POST /api/clients/downline has parentId equal to the id of the
\* authenticated client making the request, whatever parentId the body
\* carries, and the request is refused, no node stored, when the caller's
\* role is not client.
DownlineConfined ==
  /\ [](last.route = "downline" =>
         /\ Stored => (users[last.n].parentId = last.by /\ CallerIsClient)
         /\ (last.by # NoId /\ ~CallerIsClient) => (last.status = 403 /\ last.n = 0)
         /\ last.status = 403 => ~CallerIsClient)
  /\ [][(last'.status = 403 /\ last' # last) => users' = users]_vars

\* C29 witness: a client of the second level added a downline member, who
\* is stored under that client.
DownlineUnderClient ==
  /\ Stored
  /\ last.route = "downline"
  /\ last.by # AdminId
  /\ users[last.n].parentId = last.by
  /\ users[last.by].parentId # AdminId

====
